---- MODULE Spec2Model ----
(***************************************************************************)
(* Model of src/server/server.js: the Express request pipeline of the     *)
(* HomeSwift API server (CORS origin policy, rate limiter, fixed          *)
(* endpoints, session counter, error handlers), its startup sequence and  *)
(* its signal handlers.                                                    *)
(*                                                                         *)
(* Strings whose characters matter (Origin header values, environment     *)
(* values handed to parseInt) are sequences of one-character strings.     *)
(***************************************************************************)
EXTENDS Integers, Sequences, FiniteSets, TLC

VARIABLES
    corsIn,      \* SpecCors: the Origin header handed to corsOptions.origin
    corsOut,     \* SpecCors: what the origin callback was called with
    nodeEnv,     \* pipeline: process.env.NODE_ENV once the module has loaded
    rateEnv,     \* pipeline: process.env.RATE_LIMIT_MAX_REQUESTS
    hits,        \* pipeline: the limiter's store, client -> hits in the window
    seen,        \* pipeline: history, client -> requests that met the limiter in the window
    resetAfter,  \* pipeline: history, the client whose window last elapsed while it was limited
    cur,         \* pipeline: the request being dispatched through the app stack
    store,       \* SpecSession: MemoryStore.sessions, sid -> saved views
    inflight,    \* SpecSession: requests between session load and response
    calls,       \* SpecSession: history, sid -> session-test calls answered
    lastViews,   \* SpecSession: history, sid -> views of the last answer
    life         \* SpecLife: the process (startup position, env, db, signals)

vars == <<corsIn, corsOut, nodeEnv, rateEnv, hits, seen, resetAfter, cur, store, inflight,
          calls, lastViews, life>>

-----------------------------------------------------------------------------
(* Characters and literals *)

Digits == {"0", "1", "2", "3", "4", "5", "6", "7", "8", "9"}

sHttp == <<"h", "t", "t", "p">>
sColonSlashes == <<":", "/", "/">>
sLocalhost == <<"l", "o", "c", "a", "l", "h", "o", "s", "t">>
sVercelApp == <<".", "v", "e", "r", "c", "e", "l", ".", "a", "p", "p">>
sHomeswift == <<"h", "o", "m", "e", "s", "w", "i", "f", "t", ".", "a", "i">>
sWww == <<"w", "w", "w", ".">>

\* A header that may be absent: req.headers.origin is undefined or a string.
NoHeader == [present |-> FALSE, value |-> <<>>]
Header(s) == [present |-> TRUE, value |-> s]

\* Whether the literal lit occurs in s starting at position i.
HasAt(s, i, lit) ==
    /\ i >= 1
    /\ i + Len(lit) - 1 <= Len(s)
    /\ \A k \in 1..Len(lit) : s[i + k - 1] = lit[k]

-----------------------------------------------------------------------------
(* The CORS allow-list and the origin callback (server.js 26-50) *)

\* The same pattern without its ^ and $ anchors.
reLocalhostUnanchored(s) ==
    \E i \in 1..Len(s) : \E optS \in {0, 1} :
        /\ HasAt(s, i, sHttp)
        /\ (optS = 1 => HasAt(s, i + 4, <<"s">>))
        /\ HasAt(s, i + 4 + optS, sColonSlashes \o sLocalhost)

\* /^https?:\/\/localhost(:\d+)?$/ : anchored at both ends, optional "s",
\* optional group of ":" and one or more digits.
reLocalhost(s) ==
    \E optS \in {0, 1} :
        LET a == 5 + optS
            b == a + Len(sColonSlashes) + Len(sLocalhost)
        IN  /\ HasAt(s, 1, sHttp)
            /\ (optS = 1 => HasAt(s, 5, <<"s">>))
            /\ HasAt(s, a, sColonSlashes \o sLocalhost)
            /\ \/ b = Len(s) + 1
               \/ /\ HasAt(s, b, <<":">>)
                  /\ b + 1 <= Len(s)
                  /\ \A k \in (b + 1)..Len(s) : s[k] \in Digits

\* /\.vercel\.app$/ : the literal ".vercel.app" ending at the end of input.
reVercel(s) ==
    \E i \in 1..Len(s) :
        /\ HasAt(s, i, sVercelApp)
        /\ i + Len(sVercelApp) - 1 = Len(s)

\* The two string entries, compared with ===.
strHomeswift == <<"h", "t", "t", "p", "s">> \o sColonSlashes \o sHomeswift
strWwwHomeswift == <<"h", "t", "t", "p", "s">> \o sColonSlashes \o sWww \o sHomeswift

\* allowedOrigins.some(pattern => pattern instanceof RegExp ? pattern.test(origin)
\*                                                           : pattern === origin)
isAllowed(s) ==
    \/ reLocalhost(s)
    \/ reVercel(s)
    \/ s = strHomeswift
    \/ s = strWwwHomeswift

\* `!origin`: undefined and the empty string are both falsy.
originFalsy(o) == ~o.present \/ o.value = <<>>

\* corsOptions.origin(origin, callback): the callback's arguments and the warning.
corsOptionsOrigin(o) ==
    IF originFalsy(o) THEN [allow |-> TRUE, err |-> FALSE, warn |-> FALSE]
    ELSE IF isAllowed(o.value) THEN [allow |-> TRUE, err |-> FALSE, warn |-> FALSE]
    ELSE [allow |-> FALSE, err |-> TRUE, warn |-> TRUE]

-----------------------------------------------------------------------------
(* Origin header values for the origin decision *)

MaxPortLen == 2

PortChars == {"3", "0", "a"}

RECURSIVE SeqsUpTo(_, _)
SeqsUpTo(S, n) ==
    IF n = 0 THEN {<<>>}
    ELSE LET shorter == SeqsUpTo(S, n - 1)
         IN  shorter \cup {Append(t, c) : t \in {u \in shorter : Len(u) = n - 1}, c \in S}

Schemes == {<<>>, sHttp \o sColonSlashes, sHttp \o <<"s">> \o sColonSlashes,
            sHttp \o <<"s", "s">> \o sColonSlashes,
            <<"x">> \o sHttp \o sColonSlashes,
            <<"f", "t", "p">> \o sColonSlashes}

Hosts == {<<>>, sLocalhost, <<"l", "o", "c", "a", "l">>,
          sHomeswift, sWww \o sHomeswift, <<"a", "p", "i", ".">> \o sHomeswift,
          <<"f", "o", "o">> \o sVercelApp, sVercelApp,
          <<"v", "e", "r", "c", "e", "l", ".", "a", "p", "p">>,
          <<"f", "o", "o", "-", "v", "e", "r", "c", "e", "l", ".", "a", "p", "p">>,
          <<"f", "o", "o">> \o sVercelApp \o <<".", "e", "v", "i", "l">>}

Ports == {<<>>} \cup {<<":">> \o p : p \in SeqsUpTo(PortChars, MaxPortLen)}

Tails == {<<>>, <<"/">>}

OriginValues == {sc \o h \o p \o t : sc \in Schemes, h \in Hosts, p \in Ports, t \in Tails}

OriginHeaders == {NoHeader} \cup {Header(s) : s \in OriginValues}

-----------------------------------------------------------------------------
(* Environment values and parseInt (server.js 113-114) *)

DigitVal(c) ==
    CASE c = "0" -> 0 [] c = "1" -> 1 [] c = "2" -> 2 [] c = "3" -> 3 [] c = "4" -> 4
      [] c = "5" -> 5 [] c = "6" -> 6 [] c = "7" -> 7 [] c = "8" -> 8 [] c = "9" -> 9

\* Length of the longest prefix of s made of digits.
RECURSIVE DigitPrefixLen(_)
DigitPrefixLen(s) ==
    IF s = <<>> \/ Head(s) \notin Digits THEN 0 ELSE 1 + DigitPrefixLen(Tail(s))

RECURSIVE DecimalValue(_)
DecimalValue(s) ==
    IF s = <<>> THEN 0 ELSE 10 * DecimalValue(SubSeq(s, 1, Len(s) - 1)) + DigitVal(s[Len(s)])

NaN == [nan |-> TRUE, val |-> 0]

\* parseInt(x): NaN for undefined or when no digit leads (after an optional sign),
\* otherwise the value of the leading digits; what follows them is ignored.
parseInt(e) ==
    IF ~e.present THEN NaN
    ELSE LET neg == e.value # <<>> /\ Head(e.value) = "-"
             body == IF neg THEN Tail(e.value) ELSE e.value
             n == DigitPrefixLen(body)
             v == DecimalValue(SubSeq(body, 1, n))
         IN  IF n = 0 THEN NaN ELSE [nan |-> FALSE, val |-> IF neg THEN 0 - v ELSE v]

\* x || d on a number: NaN and 0 are falsy.
OrDefault(x, d) == IF x.nan \/ x.val = 0 THEN d ELSE x.val

DefaultMax == 100

\* max: parseInt(process.env.RATE_LIMIT_MAX_REQUESTS) || 100
limiterMax(e) == OrDefault(parseInt(e), DefaultMax)

-----------------------------------------------------------------------------
(* The app stack, in registration order (server.js 76-246) *)

\* Paths are sequences of segments: "/" is <<>>, "/api/auth/login" is
\* <<"api", "auth", "login">>.
pRoot == <<>>
pFavicon == <<"favicon.ico">>
pHealth == <<"health">>
pSessionTest == <<"api", "session-test">>

\* kind "use": app.use (every method, path prefix); "get" / "options": a route
\* (one method, whole path, "*" for any); "error": app.use of a 4-argument handler.
Layer(name, kind, path, any) == [name |-> name, kind |-> kind, path |-> path, any |-> any]

StackHead ==
    << Layer("cors", "use", <<>>, TRUE),                    \* 76
       Layer("optionsCors", "options", <<>>, TRUE),         \* 77
       Layer("helmet", "use", <<>>, TRUE),                  \* 107
       Layer("limiter", "use", <<>>, TRUE) >>               \* 117

EarlyRoutes ==
    << Layer("root", "get", pRoot, FALSE),                  \* 120
       Layer("favicon", "get", pFavicon, FALSE) >>          \* 125

Parsers ==
    << Layer("cookieParser", "use", <<>>, TRUE),            \* 130
       Layer("json", "use", <<>>, TRUE),                    \* 133
       Layer("urlencoded", "use", <<>>, TRUE) >>            \* 134

SessionLayer == << Layer("session", "use", <<>>, TRUE) >>  \* 161

\* if (process.env.NODE_ENV !== 'production') app.use(morgan('dev'))  (164-166)
Morgan(env) ==
    IF env # Header(<<"production">>) THEN << Layer("morgan", "use", <<>>, TRUE) >>
    ELSE << >>

LateRoutes ==
    << Layer("sessionTest", "get", pSessionTest, FALSE),    \* 169
       Layer("health", "get", pHealth, FALSE) >>            \* 187

AuthChain ==
    << Layer("jwtAuth", "use", <<>>, TRUE),                 \* 197
       Layer("checkRememberToken", "use", <<>>, TRUE),      \* 198
       Layer("loadUser", "use", <<>>, TRUE) >>              \* 199

Mounts ==
    << Layer("authRoutes", "use", <<"api", "auth">>, FALSE),          \* 202
       Layer("userRoutes", "use", <<"api", "users">>, FALSE),         \* 203
       Layer("searchRoutes", "use", <<"api", "search">>, FALSE),      \* 204
       Layer("testRoutes", "use", <<"api", "test">>, FALSE),          \* 205
       Layer("propertyRouter", "use", <<"api", "properties">>, FALSE) >> \* 206

StackTail ==
    << Layer("notFound", "use", <<>>, TRUE),                \* 209
       Layer("globalErrorHandler", "error", <<>>, TRUE),    \* 217
       Layer("errorMiddleware", "error", <<>>, TRUE) >>     \* 240

\* The stack with the authentication chain registered ahead of the late routes.
StackAuthFirst(env) ==
    StackHead \o EarlyRoutes \o Parsers \o SessionLayer \o Morgan(env) \o AuthChain
        \o LateRoutes \o Mounts \o StackTail

Stack(env) ==
    StackHead \o EarlyRoutes \o Parsers \o SessionLayer \o Morgan(env) \o LateRoutes
        \o AuthChain \o Mounts \o StackTail

IsPrefix(p, q) == Len(p) <= Len(q) /\ SubSeq(q, 1, Len(p)) = p

\* Express's router: whether the layer is handed the request. A pending error
\* skips every layer but the error handlers; without one they are skipped.
LayerApplies(L, req, failed) ==
    CASE L.kind = "error"   -> failed
      [] L.kind = "use"     -> ~failed /\ (L.any \/ IsPrefix(L.path, req.path))
      [] L.kind = "get"     -> ~failed /\ req.method = "GET" /\ req.path = L.path
      [] L.kind = "options" -> ~failed /\ req.method = "OPTIONS" /\ (L.any \/ req.path = L.path)

\* Index of the first layer at or after i that is handed the request; past the
\* end when there is none.
RECURSIVE NextLayer(_, _, _, _)
NextLayer(stack, i, req, failed) ==
    IF i > Len(stack) THEN i
    ELSE IF LayerApplies(stack[i], req, failed) THEN i
    ELSE NextLayer(stack, i + 1, req, failed)

-----------------------------------------------------------------------------
(* What a layer does with a request *)

envProduction == Header(<<"production">>)
envDevelopment == Header(<<"development">>)
envTest == Header(<<"test">>)

\* A message: fixed text and, for a template literal, the interpolated value.
Msg(text, arg) == [text |-> text, arg |-> arg]
Generic == Msg("Something went wrong!", <<>>)
NoMsg == Msg("", <<>>)

\* A failure handed to next(err); status 0 is an Error with no status property.
Failure(status, message) == [status |-> status, message |-> message]
NoErr == Failure(0, NoMsg)

Resp(status, kind, error, stack) ==
    [status |-> status, kind |-> kind, error |-> error, stack |-> stack]
NoResp == Resp(0, "none", NoMsg, FALSE)

\* What a layer did: "next" (next()), "error" (next(err) or a throw),
\* "respond" (the response is ended, next is not called),
\* "respond_error" (the response is ended and next(err) is called).
EffNext == [act |-> "next", err |-> NoErr, resp |-> NoResp, warn |-> FALSE]
EffFail(e, w) == [act |-> "error", err |-> e, resp |-> NoResp, warn |-> w]
EffRespond(r) == [act |-> "respond", err |-> NoErr, resp |-> r, warn |-> FALSE]
EffRespondAndPass(r, e) == [act |-> "respond_error", err |-> e, resp |-> r, warn |-> FALSE]

optionsSuccessStatus == 204

\* cors(corsOptions) with the denial passed on as a plain next().
corsMiddlewareDenialIgnored(req) ==
    IF req.method = "OPTIONS" THEN EffRespond(Resp(optionsSuccessStatus, "empty", NoMsg, FALSE))
    ELSE EffNext

\* cors(corsOptions) with preflightContinue: true.
corsMiddlewarePreflightContinue(req) ==
    LET d == corsOptionsOrigin(req.origin)
    IN  IF d.err
        THEN EffFail(Failure(0, Msg("CORS policy: ${origin} not allowed", req.origin.value)), d.warn)
        ELSE EffNext

\* cors(corsOptions) (76, 77): the origin callback decides; its error goes to
\* next(err); an allowed OPTIONS request is the preflight, ended here with
\* optionsSuccessStatus because preflightContinue is false.
corsMiddleware(req) ==
    LET d == corsOptionsOrigin(req.origin)
    IN  IF d.err
        THEN EffFail(Failure(0, Msg("CORS policy: ${origin} not allowed", req.origin.value)), d.warn)
        ELSE IF req.method = "OPTIONS"
        THEN EffRespond(Resp(optionsSuccessStatus, "empty", NoMsg, FALSE))
        ELSE EffNext

\* The limiter rejecting from the ceiling-th request on.
limiterOffByOne(n, max) ==
    IF n >= max
    THEN EffRespond(Resp(429, "rate_limited", Msg("Too many requests, please try again later.", <<>>), FALSE))
    ELSE EffNext

\* rateLimit({max, message}) (112-117): n is the client's hit count, this request
\* included; past max the configured message is sent with status 429.
limiter(n, max) ==
    IF n > max
    THEN EffRespond(Resp(429, "rate_limited", Msg("Too many requests, please try again later.", <<>>), FALSE))
    ELSE EffNext

\* express.json (133): a malformed JSON body fails the request with status 400.
jsonParser(req) ==
    IF req.body = "json_bad" THEN EffFail(Failure(400, Msg("Unexpected token", <<>>)), FALSE)
    ELSE EffNext

\* A mounted router (202-206): one of its routes answers, or raises a failure
\* with the status and message it chose, or none matches and it calls next().
mountedRouter(req) ==
    CASE req.route = "respond" -> EffRespond(Resp(200, "route_ok", NoMsg, FALSE))
      [] req.route = "throw"   -> EffFail(Failure(req.throwStatus, Msg("boom", <<>>)), FALSE)
      [] req.route = "pass"    -> EffNext

\* jwtAuth, checkRememberToken, loadUser (197-199): each attaches an identity
\* when it can and passes the request on either way.
authStage(req) == EffNext

ErrStatus(err) == IF err.status # 0 THEN err.status ELSE 500

\* The global error handler answering and then passing the error on.
globalErrorHandlerPassesOn(err, env) ==
    EffRespondAndPass(Resp(ErrStatus(err), "success_error",
                           IF env = envProduction THEN Generic ELSE err.message, FALSE), err)

\* The global error handler redacting in development instead of production.
globalErrorHandlerWrongMode(err, env) ==
    EffRespond(Resp(ErrStatus(err), "success_error",
                    IF env = envDevelopment THEN Generic ELSE err.message, FALSE))

\* Global error handler (217-224).
globalErrorHandler(err, env) ==
    EffRespond(Resp(ErrStatus(err), "success_error",
                    IF env = envProduction THEN Generic ELSE err.message, FALSE))

\* Error handling middleware (240-246).
errorMiddleware(err, env) ==
    EffRespond(Resp(ErrStatus(err), "error_stack",
                    IF err.message.text = "" THEN Msg("Internal Server Error", <<>>) ELSE err.message,
                    env = envDevelopment))

\* The effect of handing the request to layer L. n: the client's hit count with
\* this request counted.
Handle(L, c, n, max, env) ==
    CASE L.name \in {"cors", "optionsCors"} -> corsMiddleware(c.req)
      [] L.name = "limiter" -> limiter(n, max)
      [] L.name = "root" -> EffRespond(Resp(200, "banner", NoMsg, FALSE))
      [] L.name = "favicon" -> EffRespond(Resp(204, "empty", NoMsg, FALSE))
      [] L.name = "json" -> jsonParser(c.req)
      [] L.name \in {"jwtAuth", "checkRememberToken", "loadUser"} -> authStage(c.req)
      [] L.name = "sessionTest" -> EffRespond(Resp(200, "session", NoMsg, FALSE))
      [] L.name = "health" -> EffRespond(Resp(200, "health", NoMsg, FALSE))
      [] L.name \in {"authRoutes", "userRoutes", "searchRoutes", "testRoutes", "propertyRouter"}
            -> mountedRouter(c.req)
      [] L.name = "notFound" -> EffRespond(Resp(404, "not_found", Msg("Route not found", <<>>), FALSE))
      [] L.name = "globalErrorHandler" -> globalErrorHandler(c.err, env)
      [] L.name = "errorMiddleware" -> errorMiddleware(c.err, env)
      [] OTHER -> EffNext

\* Express's finalhandler, for a request no layer answered.
finalhandler(c) ==
    Resp(IF c.failed THEN ErrStatus(c.err) ELSE 404, "final", NoMsg, FALSE)

-----------------------------------------------------------------------------
(* Requests and their dispatch *)

Clients == {"c1", "c2"}

sEvil == <<"h", "t", "t", "p", "s">> \o sColonSlashes \o <<"e", "v", "i", "l", ".", "c", "o", "m">>

PipelineOrigins == {NoHeader, Header(<<>>), Header(strHomeswift), Header(sEvil)}

Paths == {pRoot, pFavicon, pHealth, pSessionTest, <<"api", "auth", "login">>,
          <<"api", "properties">>, <<"api", "nonexistent">>}

MountPrefixes == {<<"api", "auth">>, <<"api", "users">>, <<"api", "search">>,
                  <<"api", "test">>, <<"api", "properties">>}

IsMounted(path) == \E m \in MountPrefixes : IsPrefix(m, path)

Request(method, path, origin, client, body, route, throwStatus) ==
    [method |-> method, path |-> path, origin |-> origin, client |-> client,
     body |-> body, route |-> route, throwStatus |-> throwStatus]

\* Every request the pipeline is driven with. A body only comes with POST, and
\* a router's outcome only with a path some router is mounted on.
RouteOutcomes(path) ==
    IF IsMounted(path)
    THEN {<<"respond", 0>>, <<"pass", 0>>, <<"throw", 0>>, <<"throw", 422>>}
    ELSE {<<"pass", 0>>}

Requests(clients) ==
    UNION { { Request(mb[1], path, origin, client, mb[2], ro[1], ro[2]) :
                mb \in {<<"GET", "none">>, <<"OPTIONS", "none">>,
                        <<"POST", "json_ok">>, <<"POST", "json_bad">>},
                origin \in PipelineOrigins, client \in clients, ro \in RouteOutcomes(path) } :
            path \in Paths }

\* The requests that drive the limiter alone: the banner route, with and
\* without an origin the CORS stage denies.
RateRequests ==
    { Request("GET", pRoot, origin, client, "none", "pass", 0) :
        origin \in {NoHeader, Header(sEvil)}, client \in Clients }

Idle ==
    [active |-> FALSE, req |-> Request("GET", pRoot, NoHeader, "c1", "none", "pass", 0),
     idx |-> 1, failed |-> FALSE, err |-> NoErr, trace |-> <<>>, resps |-> <<>>,
     warns |-> 0, done |-> FALSE, ordinal |-> 0]

\* The request after layer L at index i had effect eff. ordinal records, for
\* the limiter, which request of its client's window this one was.
Apply(c, i, L, eff, ord) ==
    LET base == [c EXCEPT !.idx = i + 1,
                          !.trace = Append(@, L.name),
                          !.warns = @ + (IF eff.warn THEN 1 ELSE 0),
                          !.ordinal = IF L.name = "limiter" THEN ord ELSE @]
        sent == Append(c.resps, [r |-> eff.resp, by |-> L.name])
    IN  CASE eff.act = "next" -> base
          [] eff.act = "error" -> [base EXCEPT !.failed = TRUE, !.err = eff.err]
          [] eff.act = "respond" -> [base EXCEPT !.resps = sent, !.done = TRUE]
          [] eff.act = "respond_error" ->
                [base EXCEPT !.resps = sent, !.failed = TRUE, !.err = eff.err]

MaxOver == 1

pipeVars == <<nodeEnv, rateEnv, hits, seen, resetAfter, cur>>
corsVars == <<corsIn, corsOut>>
sessVars == <<store, inflight, calls, lastViews>>
lifeVars == <<life>>

\* A request arrives once the previous one has been answered.
Arrive(r) ==
    /\ ~cur.active \/ cur.done
    /\ hits[r.client] < limiterMax(rateEnv) + MaxOver
    /\ cur' = [Idle EXCEPT !.active = TRUE, !.req = r]
    /\ UNCHANGED <<nodeEnv, rateEnv, hits, seen, resetAfter, corsVars, sessVars, lifeVars>>

\* The router hands the request to the next layer that applies, or to
\* finalhandler when none is left.
Step ==
    /\ cur.active /\ ~cur.done
    /\ LET stack == Stack(nodeEnv)
           i == NextLayer(stack, cur.idx, cur.req, cur.failed)
           cl == cur.req.client
       IN  IF i > Len(stack)
           THEN /\ cur' = [cur EXCEPT !.idx = i, !.done = TRUE,
                                      !.trace = Append(@, "finalhandler"),
                                      !.resps = Append(@, [r |-> finalhandler(cur), by |-> "finalhandler"])]
                /\ UNCHANGED <<hits, seen>>
           ELSE LET L == stack[i]
                    counted == L.name = "limiter"
                    eff == Handle(L, cur, hits[cl] + 1, limiterMax(rateEnv), nodeEnv)
                IN  /\ cur' = Apply(cur, i, L, eff, seen[cl] + 1)
                    /\ hits' = IF counted THEN [hits EXCEPT ![cl] = @ + 1] ELSE hits
                    /\ seen' = IF counted THEN [seen EXCEPT ![cl] = @ + 1] ELSE seen
    /\ UNCHANGED <<nodeEnv, rateEnv, resetAfter, corsVars, sessVars, lifeVars>>

\* The limiter's store when the client's window has elapsed.
resetKey(h, cl) == [h EXCEPT ![cl] = 0]

\* windowMs after the client's first counted hit its window ends.
WindowElapse(cl) ==
    /\ seen[cl] > 0
    /\ hits' = resetKey(hits, cl)
    /\ seen' = [seen EXCEPT ![cl] = 0]
    /\ resetAfter' = IF seen[cl] > limiterMax(rateEnv) THEN cl ELSE resetAfter
    /\ UNCHANGED <<nodeEnv, rateEnv, cur, corsVars, sessVars, lifeVars>>

NodeEnvs == {NoHeader, envProduction, envDevelopment, envTest}

\* Values of the other specifications' variables while they do not run.
Undecided == [decided |-> FALSE, allow |-> FALSE, err |-> FALSE, warn |-> FALSE]

CorsIdle == corsIn = NoHeader /\ corsOut = Undecided
SessIdle == store = <<>> /\ inflight = <<>> /\ calls = <<>> /\ lastViews = <<>>
LifeIdle == life = [pc |-> "off"]
PipeIdle ==
    /\ nodeEnv = NoHeader /\ rateEnv = NoHeader
    /\ hits = [c \in Clients |-> 0] /\ seen = [c \in Clients |-> 0]
    /\ resetAfter = "none" /\ cur = Idle

InitPipe(envs, rateEnvs) ==
    /\ nodeEnv \in envs
    /\ rateEnv \in rateEnvs
    /\ hits = [c \in Clients |-> 0]
    /\ seen = [c \in Clients |-> 0]
    /\ resetAfter = "none"
    /\ cur = Idle
    /\ CorsIdle /\ SessIdle /\ LifeIdle

Init == InitPipe(NodeEnvs, {Header(<<"2">>)})

Next ==
    \/ \E r \in Requests({"c1"}) : Arrive(r)
    \/ Step
    \/ \E cl \in Clients : WindowElapse(cl)

Spec == Init /\ [][Next]_vars

InitRate == InitPipe({envProduction}, {NoHeader, Header(<<"3", "x">>)})

NextRate ==
    \/ \E r \in RateRequests : Arrive(r)
    \/ Step
    \/ \E cl \in Clients : WindowElapse(cl)

SpecRate == InitRate /\ [][NextRate]_vars

-----------------------------------------------------------------------------
(* The origin decision on its own *)

\* corsOptions.origin is called with the request's Origin header.
originCallback ==
    /\ ~corsOut.decided
    /\ corsOut' = [decided |-> TRUE] @@ corsOptionsOrigin(corsIn)
    /\ UNCHANGED <<corsIn, pipeVars, sessVars, lifeVars>>

InitCors ==
    /\ corsIn \in OriginHeaders
    /\ corsOut = Undecided
    /\ PipeIdle /\ SessIdle /\ LifeIdle

NextCors == originCallback

SpecCors == InitCors /\ [][NextCors]_vars

-----------------------------------------------------------------------------
(* Claims about the origin decision (SpecCors) *)

EndsWith(v, suffix) ==
    Len(v) >= Len(suffix) /\ SubSeq(v, Len(v) - Len(suffix) + 1, Len(v)) = suffix

StartsWith(v, prefix) == Len(v) >= Len(prefix) /\ SubSeq(v, 1, Len(prefix)) = prefix

\* http or https, "://localhost", then nothing or ":" and at least one digit.
IsLocalhostOrigin(v) ==
    \E scheme \in {sHttp, sHttp \o <<"s">>} :
        LET head == scheme \o sColonSlashes \o sLocalhost
            rest == SubSeq(v, Len(head) + 1, Len(v))
        IN  /\ StartsWith(v, head)
            /\ \/ rest = <<>>
               \/ /\ Len(rest) >= 2
                  /\ rest[1] = ":"
                  /\ \A k \in 2..Len(rest) : rest[k] \in Digits

MatchesAllowList(v) ==
    \/ IsLocalhostOrigin(v)
    \/ EndsWith(v, sVercelApp)
    \/ v = <<"h", "t", "t", "p", "s", ":", "/", "/", "h", "o", "m", "e", "s", "w", "i", "f", "t", ".", "a", "i">>
    \/ v = <<"h", "t", "t", "p", "s", ":", "/", "/", "w", "w", "w", ".", "h", "o", "m", "e", "s", "w", "i", "f", "t", ".", "a", "i">>

\* C1 as stated: a request with no Origin header is allowed, and a request with
\* an Origin header is allowed if and only if the origin matches an entry of the
\* allow-list; every other origin is denied.
C1_OriginAllowedIffListed ==
    corsOut.decided =>
        /\ ~corsIn.present => corsOut.allow
        /\ corsIn.present => (corsOut.allow <=> MatchesAllowList(corsIn.value))

\* C1 amended: a request whose Origin header is absent or empty is allowed, and
\* a request with a non-empty Origin header is allowed if and only if the origin
\* matches an entry of the allow-list; every other origin is denied with an
\* error and a warning.
C1_OriginAllowedIffListedOrEmpty ==
    corsOut.decided =>
        /\ corsOut.allow <=>
              (~corsIn.present \/ corsIn.value = <<>> \/ MatchesAllowList(corsIn.value))
        /\ corsOut.allow <=> ~corsOut.err
        /\ corsOut.err <=> corsOut.warn

\* An origin on localhost with a port has been allowed.
C1_Witness ==
    /\ corsOut.decided /\ corsOut.allow
    /\ corsIn = Header(sHttp \o sColonSlashes \o sLocalhost \o <<":", "3", "0">>)

-----------------------------------------------------------------------------
(* Claims about the request pipeline (Spec, SpecRate) *)

Filter(seq, S) == SelectSeq(seq, LAMBDA x : x \in S)

Denied(o) == o.present /\ o.value # <<>> /\ ~MatchesAllowList(o.value)

Downstream ==
    {"limiter", "session", "root", "favicon", "sessionTest", "health", "jwtAuth",
     "checkRememberToken", "loadUser", "authRoutes", "userRoutes", "searchRoutes",
     "testRoutes", "propertyRouter", "notFound"}

NoContentByCors == [r |-> Resp(204, "empty", NoMsg, FALSE), by |-> "cors"]

\* C2 as stated: an OPTIONS request to any path, with any Origin header or none,
\* is answered 204 by the CORS stage and reaches no later stage.
C2_OptionsAlwaysNoContent ==
    (cur.active /\ cur.req.method = "OPTIONS") =>
        /\ Filter(cur.trace, Downstream) = <<>>
        /\ cur.done => (cur.resps = <<NoContentByCors>> /\ cur.trace = <<"cors">>)

\* C2 amended: an OPTIONS request to any path whose Origin header is absent,
\* empty or allow-listed is answered 204 by the CORS stage; one with any other
\* Origin is failed by the CORS stage and answered by the error handler with
\* status 500; in both cases it reaches neither the rate limiter, the session
\* stage, the authentication chain, a route handler nor the 404 fallback.
C2_OptionsNoContentUnlessDenied ==
    (cur.active /\ cur.req.method = "OPTIONS") =>
        /\ Filter(cur.trace, Downstream) = <<>>
        /\ (cur.done /\ ~Denied(cur.req.origin)) =>
              (cur.resps = <<NoContentByCors>> /\ cur.trace = <<"cors">>)
        /\ (cur.done /\ Denied(cur.req.origin)) =>
              /\ cur.trace = <<"cors", "globalErrorHandler">>
              /\ Len(cur.resps) = 1
              /\ cur.resps[1].by = "globalErrorHandler"
              /\ cur.resps[1].r.status = 500

\* A preflight from an allow-listed origin to a mounted path has been answered.
C2_Witness ==
    /\ cur.active /\ cur.done /\ cur.req.method = "OPTIONS"
    /\ cur.req.origin = Header(strHomeswift)
    /\ cur.req.path = <<"api", "auth", "login">>
    /\ cur.resps = <<NoContentByCors>>

\* C3: with ceiling the limiter's maximum (100 unless configured), a client's
\* first ceiling requests counted in a window are passed on, its later ones in
\* that window get the rate-limit payload from the limiter and reach nothing
\* after it, and after its window has elapsed its requests are passed on again.
C3_CeilingPerWindow ==
    LET ceiling == limiterMax(rateEnv)
        limited == [r |-> Resp(429, "rate_limited",
                               Msg("Too many requests, please try again later.", <<>>), FALSE),
                    by |-> "limiter"]
    IN  (cur.active /\ cur.ordinal > 0) =>
            /\ cur.ordinal <= ceiling =>
                  /\ \A k \in 1..Len(cur.resps) : cur.resps[k].by # "limiter"
                  /\ cur.trace[Len(cur.trace)] = "limiter" => ~cur.done
            /\ cur.ordinal > ceiling =>
                  /\ cur.done
                  /\ cur.resps = <<limited>>
                  /\ cur.trace[Len(cur.trace)] = "limiter"

\* With the default ceiling, a client that was limited in one window is served
\* again on its first request of the next.
C3_Witness ==
    /\ rateEnv = NoHeader
    /\ cur.active /\ cur.done
    /\ resetAfter = cur.req.client
    /\ cur.ordinal = 1
    /\ cur.resps[1].by = "root"

\* C6: a request whose Origin is not allow-listed is failed by the CORS stage
\* with the CORS error and one warning, is never counted by the limiter, and the
\* only stage that runs after the denial is the error handler.
C6_DeniedOriginStopsAtCors ==
    (cur.active /\ Denied(cur.req.origin)) =>
        /\ cur.trace \in {<<>>, <<"cors">>, <<"cors", "globalErrorHandler">>}
        /\ cur.ordinal = 0
        /\ Len(cur.trace) >= 1 =>
              /\ cur.failed
              /\ cur.err.message = Msg("CORS policy: ${origin} not allowed", cur.req.origin.value)
              /\ cur.warns = 1
        /\ cur.done => Len(cur.trace) = 2

\* A denied request to a mounted route has been answered by the error handler.
C6_Witness ==
    /\ cur.active /\ cur.done
    /\ cur.req.origin = Header(sEvil)
    /\ cur.req.method = "POST"
    /\ cur.req.path = <<"api", "auth", "login">>
    /\ cur.trace = <<"cors", "globalErrorHandler">>
    /\ cur.warns = 1

ErrorHandlers == {"globalErrorHandler", "errorMiddleware"}

\* C7: every response of an error handler carries the generic phrase in
\* production and the failure's own message in every other mode; in production
\* none carries the original message or a stack trace.
C7_RedactedOnlyInProduction ==
    \A k \in 1..Len(cur.resps) :
        cur.resps[k].by \in ErrorHandlers =>
            /\ nodeEnv = Header(<<"production">>) =>
                  /\ cur.resps[k].r.error = Msg("Something went wrong!", <<>>)
                  /\ cur.resps[k].r.error # cur.err.message
                  /\ ~cur.resps[k].r.stack
            /\ nodeEnv # Header(<<"production">>) => cur.resps[k].r.error = cur.err.message

\* In production a router's failure has been answered with the generic phrase.
C7_Witness ==
    /\ nodeEnv = Header(<<"production">>)
    /\ cur.active /\ cur.done /\ cur.failed
    /\ cur.err.message = Msg("boom", <<>>)
    /\ cur.resps[1].r.error = Msg("Something went wrong!", <<>>)

\* C8: a failed request is handled by exactly one error handler and gets
\* exactly one response, from the first-registered handler in its shape
\* {success: false, error}; the second-registered handler never runs.
C8_FirstHandlerOnly ==
    /\ Filter(cur.trace, {"errorMiddleware"}) = <<>>
    /\ Len(Filter(cur.trace, ErrorHandlers)) <= 1
    /\ (cur.active /\ cur.failed /\ cur.done) =>
          /\ Filter(cur.trace, ErrorHandlers) = <<"globalErrorHandler">>
          /\ Len(cur.resps) = 1
          /\ cur.resps[1].by = "globalErrorHandler"
          /\ cur.resps[1].r.kind = "success_error"

\* A malformed JSON body has been answered once, by the global error handler.
C8_Witness ==
    /\ cur.active /\ cur.done /\ cur.failed
    /\ cur.req.body = "json_bad"
    /\ cur.err.status = 400
    /\ Len(cur.resps) = 1
    /\ cur.resps[1].r.status = 400

SixStages == {"cors", "helmet", "limiter", "cookieParser", "json", "urlencoded", "session"}
AuthStages == {"jwtAuth", "checkRememberToken", "loadUser"}
FixedEndpoints == {"root", "favicon", "health", "sessionTest"}
Dispatch == {"authRoutes", "userRoutes", "searchRoutes", "testRoutes", "propertyRouter", "notFound"}

AnsweredBy(S) == cur.active /\ cur.done /\ Len(cur.resps) >= 1 /\ cur.resps[1].by \in S

\* C9 as stated: a request answered by any fixed endpoint has passed, in order,
\* CORS, security headers, the rate limiter, cookie parsing, body parsing and
\* session resolution, and not the authentication chain.
C9_FixedEndpointsAfterSession ==
    AnsweredBy(FixedEndpoints) =>
        /\ Filter(cur.trace, SixStages) =
              <<"cors", "helmet", "limiter", "cookieParser", "json", "urlencoded", "session">>
        /\ Filter(cur.trace, AuthStages) = <<>>

\* C9 amended: a request answered by GET /health or GET /api/session-test has
\* passed, in order, CORS, security headers, the rate limiter, cookie parsing,
\* body parsing and session resolution; one answered by GET / or
\* GET /favicon.ico has passed only CORS, security headers and the rate limiter;
\* none of the four has passed the authentication chain, which runs only for
\* requests that go on to route dispatch or the 404 fallback.
C9_LateEndpointsAfterSession ==
    /\ AnsweredBy({"health", "sessionTest"}) =>
          Filter(cur.trace, SixStages) =
              <<"cors", "helmet", "limiter", "cookieParser", "json", "urlencoded", "session">>
    /\ AnsweredBy({"root", "favicon"}) =>
          /\ Filter(cur.trace, SixStages) = <<"cors", "helmet", "limiter">>
          /\ Len(cur.trace) = 4
    /\ AnsweredBy(FixedEndpoints) => Filter(cur.trace, AuthStages) = <<>>
    /\ (cur.active /\ cur.done /\ Filter(cur.trace, AuthStages) # <<>>) =>
          /\ Filter(cur.trace, AuthStages) = <<"jwtAuth", "checkRememberToken", "loadUser">>
          /\ Filter(cur.trace, Dispatch) # <<>>

\* GET /api/session-test has been answered after the session stage.
C9_Witness ==
    /\ AnsweredBy({"sessionTest"})
    /\ Filter(cur.trace, {"session", "sessionTest"}) = <<"session", "sessionTest">>

-----------------------------------------------------------------------------
(* The session stage and GET /api/session-test (server.js 139-184) *)

MaxSessions == 2
MaxInflight == 3
MaxCalls == 4

\* The handler (171-176): if (!req.session.views) req.session.views = 0;
\* req.session.views++. views 0 stands for a session object without the field.
sessionTestViews(views) == (IF views = 0 THEN 0 ELSE views) + 1

Remove(seq, k) == SubSeq(seq, 1, k - 1) \o SubSeq(seq, k + 1, Len(seq))

Pending(sid) == Len(SelectSeq(inflight, LAMBDA q : q.sid = sid))

\* A request without a session cookie: the session stage generates a session
\* and calls next() at once; the handler sets views to 1 and answers, and the
\* end of the response saves the session (MemoryStore.set writes at once).
FreshCall ==
    /\ Len(store) < MaxSessions
    /\ LET v == sessionTestViews(0)
       IN  /\ store' = Append(store, v)
           /\ calls' = Append(calls, 1)
           /\ lastViews' = Append(lastViews, v)
    /\ UNCHANGED <<inflight, corsVars, pipeVars, lifeVars>>

\* A request with the cookie of session sid reaches the session stage:
\* MemoryStore.get reads and parses the saved session now and defers the
\* callback that hands it to the request.
LoadSession(sid) ==
    /\ sid \in DOMAIN store
    /\ Len(inflight) < MaxInflight
    /\ calls[sid] + Pending(sid) < MaxCalls
    /\ inflight' = Append(inflight, [sid |-> sid, views |-> store[sid]])
    /\ UNCHANGED <<store, calls, lastViews, corsVars, pipeVars, lifeVars>>

\* The deferred callback of request k runs: the handler increments the views of
\* the request's own session object and answers with them, and the end of the
\* response saves that object over the stored session.
HandleCall(k) ==
    /\ k \in DOMAIN inflight
    /\ LET sid == inflight[k].sid
           v == sessionTestViews(inflight[k].views)
       IN  /\ store' = [store EXCEPT ![sid] = v]
           /\ calls' = [calls EXCEPT ![sid] = @ + 1]
           /\ lastViews' = [lastViews EXCEPT ![sid] = v]
    /\ inflight' = Remove(inflight, k)
    /\ UNCHANGED <<corsVars, pipeVars, lifeVars>>

InitSession == SessIdle /\ CorsIdle /\ PipeIdle /\ LifeIdle

NextSession ==
    \/ FreshCall
    \/ \E sid \in 1..MaxSessions : LoadSession(sid)
    \/ \E k \in 1..MaxInflight : HandleCall(k)

SpecSession == InitSession /\ [][NextSession]_vars

\* C4: the n-th answered call of a session returns views = n and leaves n in
\* the store, whatever the interleaving of the requests in flight.
C4_ViewsCountCalls ==
    \A sid \in DOMAIN store :
        /\ lastViews[sid] = calls[sid]
        /\ store[sid] = calls[sid]

-----------------------------------------------------------------------------
(* Startup and shutdown of the process (server.js 20-23, 80, 94-102, 137-155,
   226-237, 248-254) *)

MaxAccepted == 2

\* dotenv.config: a key of the file is set only when the process environment
\* does not define it already.
dotenvConfig(env, file) == IF env.present THEN env ELSE file

\* sessionConfig (140-155), the options that depend on isProduction.
sessionConfig(isProduction) ==
    [proxy |-> isProduction,
     secure |-> IF isProduction THEN "true" ELSE "auto",
     sameSite |-> IF isProduction THEN "none" ELSE "lax",
     domain |-> IF isProduction THEN ".homeswift-ai.vercel.app" ELSE "localhost"]

LifeStart(env, file) ==
    [pc |-> "trustProxy", env |-> env, file |-> file, trustProxy |-> FALSE,
     session |-> sessionConfig(FALSE), db |-> "none", handlers |-> FALSE,
     listening |-> FALSE, awaiting |-> {}, signalled |-> FALSE, exited |-> "no",
     accepted |-> 0, acceptedAfterSignal |-> 0]

Running == life.exited = "no"

\* 21-23: if (process.env.NODE_ENV === 'production') app.set('trust proxy', 1)
TrustProxyDecision ==
    /\ Running /\ life.pc = "trustProxy"
    /\ life' = [life EXCEPT !.trustProxy = (life.env = envProduction), !.pc = "dotenv"]
    /\ UNCHANGED <<corsVars, pipeVars, sessVars>>

\* 80: dotenv.config({ path: path.join(__dirname, '.env') })
LoadDotenv ==
    /\ Running /\ life.pc = "dotenv"
    /\ life' = [life EXCEPT !.env = dotenvConfig(life.env, life.file), !.pc = "initModels"]
    /\ UNCHANGED <<corsVars, pipeVars, sessVars>>

\* 96-102: await models.initialize(); a failure ends the process with code 1.
InitModels(ok) ==
    /\ Running /\ life.pc = "initModels"
    /\ life' = IF ok THEN [life EXCEPT !.db = "open", !.pc = "sessionConfig"]
               ELSE [life EXCEPT !.exited = "failed"]
    /\ UNCHANGED <<corsVars, pipeVars, sessVars>>

\* 137-161: isProduction is read and the session stage is configured.
ConfigureSession ==
    /\ Running /\ life.pc = "sessionConfig"
    /\ life' = [life EXCEPT !.session = sessionConfig(life.env = envProduction),
                            !.pc = "handlers"]
    /\ UNCHANGED <<corsVars, pipeVars, sessVars>>

\* 227-237: process.on('SIGINT', ...), process.on('SIGTERM', ...)
RegisterHandlers ==
    /\ Running /\ life.pc = "handlers"
    /\ life' = [life EXCEPT !.handlers = TRUE, !.pc = "listen"]
    /\ UNCHANGED <<corsVars, pipeVars, sessVars>>

\* 249: app.listen(PORT, ...)
Listen ==
    /\ Running /\ life.pc = "listen"
    /\ life' = [life EXCEPT !.listening = TRUE, !.pc = "serving"]
    /\ UNCHANGED <<corsVars, pipeVars, sessVars>>

\* The listening socket accepts a connection and the request is served.
AcceptRequest ==
    /\ Running /\ life.listening
    /\ life.accepted < MaxAccepted
    /\ life' = [life EXCEPT !.accepted = @ + 1,
                            !.acceptedAfterSignal = IF life.signalled THEN @ + 1 ELSE @]
    /\ UNCHANGED <<corsVars, pipeVars, sessVars>>

\* SIGINT or SIGTERM is delivered. Before the handlers are registered the
\* default disposition ends the process. Afterwards the handler (227-231,
\* 233-237) logs, calls models.getSequelize().close() and awaits it; nothing in
\* it closes the listening socket.
Signal(sig) ==
    /\ Running
    /\ sig \notin life.awaiting
    /\ life' = IF ~life.handlers THEN [life EXCEPT !.exited = "signal", !.signalled = TRUE]
               ELSE [life EXCEPT !.signalled = TRUE,
                                 !.awaiting = @ \cup {sig},
                                 !.db = IF @ = "open" THEN "closing" ELSE @]
    /\ UNCHANGED <<corsVars, pipeVars, sessVars>>

\* The connection pool has drained: close() resolves.
CloseDone ==
    /\ Running /\ life.db = "closing"
    /\ life' = [life EXCEPT !.db = "closed"]
    /\ UNCHANGED <<corsVars, pipeVars, sessVars>>

\* The handler resumes after its await and calls process.exit(0).
HandlerExit(sig) ==
    /\ Running
    /\ sig \in life.awaiting
    /\ life.db = "closed"
    /\ life' = [life EXCEPT !.exited = "handler", !.listening = FALSE]
    /\ UNCHANGED <<corsVars, pipeVars, sessVars>>

Signals == {"SIGINT", "SIGTERM"}

InitLife ==
    /\ \E env \in NodeEnvs, file \in NodeEnvs : life = LifeStart(env, file)
    /\ CorsIdle /\ PipeIdle /\ SessIdle

NextLife ==
    \/ TrustProxyDecision
    \/ LoadDotenv
    \/ \E ok \in BOOLEAN : InitModels(ok)
    \/ ConfigureSession
    \/ RegisterHandlers
    \/ Listen
    \/ AcceptRequest
    \/ \E sig \in Signals : Signal(sig)
    \/ CloseDone
    \/ \E sig \in Signals : HandlerExit(sig)

SpecLife == InitLife /\ [][NextLife]_vars

\* C5: after SIGINT or SIGTERM no request is accepted before the process exits,
\* and the process does not exit through the signal handler before the
\* database connection has been closed.
C5_ShutdownStopsAccepting ==
    /\ life.acceptedAfterSignal = 0
    /\ life.exited = "handler" => life.db = "closed"

Configured == life.pc \in {"handlers", "listen", "serving"}

\* C10: once the process is configured, proxy trust is on exactly when the
\* session stage has its production configuration and off exactly when it has
\* its development configuration, whether NODE_ENV comes from the process
\* environment or from the .env file.
C10_TrustProxyMatchesSession ==
    Configured =>
        /\ life.trustProxy <=> life.session = [proxy |-> TRUE, secure |-> "true", sameSite |-> "none",
                                               domain |-> ".homeswift-ai.vercel.app"]
        /\ ~life.trustProxy <=> life.session = [proxy |-> FALSE, secure |-> "auto", sameSite |-> "lax",
                                                domain |-> "localhost"]

====
